---------------------------- MODULE Spec2Model ----------------------------
(***************************************************************************)
(* A model of src/server.js: an Express application over five Mongoose     *)
(* collections (Contact, BlogPost, JobPosting, Product, ChatMessage), a    *)
(* Cloudinary uploader and a Nodemailer transporter.                       *)
(*                                                                         *)
(* Text is modelled as a sequence of one-character strings, so that        *)
(* toLowerCase, replace, split and trim are computed character by          *)
(* character as the JavaScript does.                                       *)
(***************************************************************************)
EXTENDS Integers, Sequences, FiniteSets, TLC

VARIABLES
    contacts,   \* the Contact collection: a set of documents
    blogs,      \* the BlogPost collection
    jobs,       \* the JobPosting collection
    products,   \* the Product collection
    chats,      \* the ChatMessage collection
    nextId,     \* the next _id the store assigns
    now,        \* Date.now()
    inflight,   \* the handlers suspended at an await, by request slot
    outbox,     \* the number of mails the transporter has accepted
    resp,       \* the last HTTP response sent
    slugIO,     \* a title and the slug computed from it (SpecSlug)
    normIO      \* a requirements value and its stored list (SpecNorm)

vars == <<contacts, blogs, jobs, products, chats, nextId, now, inflight,
          outbox, resp, slugIO, normIO>>

storeVars == <<contacts, blogs, jobs, products, chats, nextId, now, inflight,
               outbox, resp>>

-----------------------------------------------------------------------------
(* Bounds *)

\* longest title explored exhaustively by SpecSlug
MaxTitleLen == 4
\* longest comma-separated string explored exhaustively by SpecNorm
MaxCsvLen == 4
\* the number of documents the store assigns an _id to
MaxDocs == 2
\* the last value Date.now() reaches
MaxTime == 1
\* the number of handlers that can be suspended at an await at once
MaxInflight == 1

-----------------------------------------------------------------------------
(* Characters and strings *)

Lower == <<"a","b","c","d","e","f","g","h","i","j","k","l","m",
           "n","o","p","q","r","s","t","u","v","w","x","y","z">>
Upper == <<"A","B","C","D","E","F","G","H","I","J","K","L","M",
           "N","O","P","Q","R","S","T","U","V","W","X","Y","Z">>
Digits == <<"0","1","2","3","4","5","6","7","8","9">>

Range(s) == {s[i] : i \in DOMAIN s}

\* all sequences over S of length at most n
SeqsUpTo(S, n) == UNION {[1..k -> S] : k \in 0..n}

\* String.prototype.toLowerCase on one character; a non-ASCII capital such
\* as "É" lowers to the non-ASCII "é"
ToLowerChar(c) ==
    IF \E i \in DOMAIN Upper : Upper[i] = c
    THEN Lower[CHOOSE i \in DOMAIN Upper : Upper[i] = c]
    ELSE IF c = "É" THEN "é" ELSE c

\* title.toLowerCase()
ToLowerCase(s) == [i \in 1..Len(s) |-> ToLowerChar(s[i])]

\* the character class [a-z0-9] of the slug regular expression
InSlugClass(c) == c \in Range(Lower) \cup Range(Digits)

\* mutant: the pattern without its +, replacing each character on its own
ReplaceEach(s) == [i \in 1..Len(s) |-> IF InSlugClass(s[i]) THEN s[i] ELSE "-"]

\* .replace(/[^a-z0-9]+/g, '-'): every maximal run of characters outside
\* the class becomes one '-'
RECURSIVE ReplaceRuns(_)
ReplaceRuns(s) ==
    IF s = <<>> THEN <<>>
    ELSE IF InSlugClass(Head(s)) THEN <<Head(s)>> \o ReplaceRuns(Tail(s))
    ELSE LET outside == {i \in 1..Len(s) : InSlugClass(s[i])}
             stop == IF outside = {} THEN Len(s) + 1
                     ELSE CHOOSE i \in outside : \A j \in outside : i <= j
         IN  <<"-">> \o ReplaceRuns(SubSeq(s, stop, Len(s)))

\* .replace(/(^-|-$)/g, ''): a '-' at the start is removed, then a '-' at
\* the end of what is left
TrimDashes(s) ==
    LET a == IF s # <<>> /\ Head(s) = "-" THEN Tail(s) ELSE s
    IN  IF a # <<>> /\ a[Len(a)] = "-" THEN SubSeq(a, 1, Len(a) - 1) ELSE a

\* const slug = title.toLowerCase().replace(...).replace(...)
Slugify(title) == TrimDashes(ReplaceRuns(ToLowerCase(title)))

\* JavaScript white space as far as the modelled alphabet has any
IsSpace(c) == c = " "

\* mutant: split(',') without the map(... trim())
NoTrim(s) == s

\* String.prototype.trim
RECURSIVE Trim(_)
Trim(s) ==
    IF s = <<>> THEN <<>>
    ELSE IF IsSpace(Head(s)) THEN Trim(Tail(s))
    ELSE IF IsSpace(s[Len(s)]) THEN Trim(SubSeq(s, 1, Len(s) - 1))
    ELSE s

\* String.prototype.split(','): the pieces between the commas, in order
RECURSIVE Split(_)
Split(s) ==
    LET commas == {i \in 1..Len(s) : s[i] = ","}
    IN  IF commas = {} THEN <<s>>
        ELSE LET c == CHOOSE i \in commas : \A j \in commas : i <= j
             IN  <<SubSeq(s, 1, c - 1)>> \o Split(SubSeq(s, c + 1, Len(s)))

\* x.split(',').map(e => e.trim())
SplitTrim(s) == LET p == Split(s) IN [i \in 1..Len(p) |-> Trim(p[i])]

\* A request value for requirements / benefits: an array of strings, a
\* string, or absent (undefined).
ArrayVal(a) == [kind |-> "array", elems |-> a, text |-> <<>>]
StringVal(s) == [kind |-> "string", elems |-> <<>>, text |-> s]
Absent == [kind |-> "undefined", elems |-> <<>>, text |-> <<>>]

\* Array.isArray(v) ? v : v ? v.split(',').map(trim) : []   (POST /api/jobs)
\* the empty string is falsy
NormalizeList(v) ==
    IF v.kind = "array" THEN v.elems
    ELSE IF v.kind = "string" /\ v.text # <<>> THEN SplitTrim(v.text)
    ELSE <<>>

-----------------------------------------------------------------------------
(* Request values *)

\* a body field that is absent (undefined): for text, a one-element
\* sequence whose element is no character
UndefText == <<"undefined">>
Undef == "undefined"

\* req.body.published / req.body.isActive as sent: JSON gives a boolean,
\* multipart form data gives a string
RawFlags == {"true", "'true'", "false", "'false'", Undef}

\* mutant: only the boolean true is accepted
IsBooleanTrue(raw) == raw = "true"

\* published === true || published === 'true'
IsTrue(raw) == raw = "true" \/ raw = "'true'"

\* what cloudinary's upload_stream callback gets: an error, or a result
\* whose secure_url is one of Urls
Urls == {"u1", "u2"}
UploadError == "error"
NoFile == "nofile"

\* req.params.id: a string that casts to an ObjectId (one of 1..MaxDocs),
\* or one that does not (0, standing for a string like "abc")
IdParams == 0..MaxDocs
IsObjectId(p) == p \in 1..MaxDocs

Slots == 1..MaxInflight

\* a handler suspended at an await: which handler, at which await, the date
\* of the document it has constructed and the _id of the document it has
\* persisted (0 if none). The body of its request is immutable and is drawn
\* where the handler next uses it.
Request(op, pc, date, made) == [op |-> op, pc |-> pc, date |-> date, made |-> made]
Idle == Request("idle", "none", 0, 0)

FreeSlots == {s \in Slots : inflight[s] = Idle}
\* the slot a new suspended handler takes
LeastFree == CHOOSE s \in FreeSlots : \A t \in FreeSlots : s <= t

-----------------------------------------------------------------------------
(* Responses *)

\* The response a handler sends: its status and body (a list of documents;
\* a single document is a list of one, a message or null the empty list),
\* and, of the request it answers: the handler (op), the :id parameter (id,
\* NoId if it has none), the title or :slug it named (text), what the
\* uploader returned to a handler that did not fail (upload, else NoFile),
\* the _id of the document the handler persisted (made, 0 if none) and whether
\* the transporter accepted its mail (mailed).
NoId == -1
Response(op, id, text, upload, status, body) ==
    [op |-> op, id |-> id, text |-> text, upload |-> upload, status |-> status,
     body |-> body, made |-> 0, mailed |-> FALSE]
NoResponse == Response("none", NoId, <<>>, NoFile, 0, <<>>)

\* res.status(500).json({ message: 'An error occurred' })
Fail(op, id, text) == Response(op, id, text, NoFile, 500, <<>>)

-----------------------------------------------------------------------------
(* The record store *)

\* mutant: ascending and descending exchanged
SortedByDateReversed(S, dir) ==
    {s \in [1..Cardinality(S) -> S] :
        /\ \A i, j \in DOMAIN s : i # j => s[i] # s[j]
        /\ \A i, j \in DOMAIN s : i < j => dir * (s[j].date - s[i].date) <= 0}

\* Model.find(...).sort({ date: dir }): every order of the documents of S
\* the sort can produce (documents of equal date come in any order)
SortedByDate(S, dir) ==
    {s \in [1..Cardinality(S) -> S] :
        /\ \A i, j \in DOMAIN s : i # j => s[i] # s[j]
        /\ \A i, j \in DOMAIN s : i < j => dir * (s[j].date - s[i].date) >= 0}

\* Model.findById(id) / the document findByIdAnd... acts on
ById(S, id) == {d \in S : d._id = id}

-----------------------------------------------------------------------------
(* The state after construction: empty collections, nothing in flight *)

StoreIdle ==
    /\ contacts = {} /\ blogs = {} /\ jobs = {} /\ products = {} /\ chats = {}
    /\ nextId = 1
    /\ now = 0
    /\ inflight = [s \in Slots |-> Idle]
    /\ outbox = 0
    /\ resp = NoResponse

\* the clock moves on
Tick ==
    /\ now < MaxTime
    /\ now' = now + 1
    /\ UNCHANGED <<contacts, blogs, jobs, products, chats, nextId, inflight,
                   outbox, resp, slugIO, normIO>>

SlugIdle == [title |-> <<>>, slug |-> <<>>, done |-> FALSE]
NormIdle == [value |-> Absent, stored |-> <<>>, done |-> FALSE]

-----------------------------------------------------------------------------
(* Blog posts *)

\* "A b" and "a-b," give the same slug, "Q" another
BlogTitles == {<<"A", " ", "b">>, <<"a", "-", "b", ",">>, <<"Q">>}
TitleFields == BlogTitles \cup {UndefText}
\* the slug expression of POST /api/blog on the titles requests carry
SlugOf == [t \in BlogTitles |-> Slugify(t)]
\* req.params.slug
SlugParams == {SlugOf[t] : t \in BlogTitles} \cup {<<"z">>}

BlogDoc(id, title, slug, image, published, date) ==
    [_id |-> id, title |-> title, slug |-> slug, image |-> image,
     published |-> published, date |-> date]

\* mutant: the schema without unique: true
NoUniqueIndex(slug) == FALSE

\* slug: { type: String, unique: true }: the index rejects an insert whose
\* slug a stored post has
SlugTaken(slug) == \E d \in blogs : d.slug = slug

\* POST /api/blog after the upload: slug, new BlogPost, save, respond.
\* title.toLowerCase() throws when title is undefined.
BlogInsert(title, published, imageUrl, upload) ==
    IF title = UndefText \/ SlugTaken(SlugOf[title])
    THEN /\ resp' = Fail("blog.create", NoId, title)
         /\ UNCHANGED <<blogs, nextId>>
    ELSE LET doc == BlogDoc(nextId, title, SlugOf[title], imageUrl, published, now)
         IN  /\ nextId <= MaxDocs
             /\ blogs' = blogs \cup {doc}
             /\ nextId' = nextId + 1
             /\ resp' = [Response("blog.create", NoId, title, upload, 201, <<doc>>)
                            EXCEPT !.made = doc._id]

\* mutant: the image is written whether or not a file was uploaded
PatchImageAlways(old, imageUrl) == imageUrl

\* ...(imageUrl && { image: imageUrl }): the patch has an image only for a
\* non-empty imageUrl
PatchImage(old, imageUrl) == IF imageUrl # "" THEN imageUrl ELSE old

\* PUT /api/blog/:id after the upload: updateData, findByIdAndUpdate with
\* { new: true } (no validators run; undefined fields are left out of the
\* update), respond. The slug is not in updateData.
BlogPatch(id, title, published, imageUrl, upload) ==
    IF ~IsObjectId(id)
    THEN /\ resp' = Fail("blog.update", id, <<>>)
         /\ UNCHANGED blogs
    ELSE IF ById(blogs, id) = {}
    THEN /\ resp' = Response("blog.update", id, <<>>, upload, 200, <<>>)
         /\ UNCHANGED blogs
    ELSE LET old == CHOOSE d \in ById(blogs, id) : TRUE
             new == [old EXCEPT !.title = IF title = UndefText THEN @ ELSE title,
                                !.published = published,
                                !.image = PatchImage(@, imageUrl)]
         IN  /\ blogs' = (blogs \ {old}) \cup {new}
             /\ resp' = Response("blog.update", id, <<>>, upload, 200, <<new>>)

\* GET /api/blog
BlogList ==
    /\ \E body \in SortedByDate({d \in blogs : d.published}, -1) :
          resp' = Response("blog.list", NoId, <<>>, NoFile, 200, body)
    /\ UNCHANGED <<contacts, blogs, jobs, products, chats, nextId, now, inflight,
                   outbox, slugIO, normIO>>

\* GET /api/admin/blogs
BlogListAdmin ==
    /\ \E body \in SortedByDate(blogs, -1) :
          resp' = Response("blog.listAdmin", NoId, <<>>, NoFile, 200, body)
    /\ UNCHANGED <<contacts, blogs, jobs, products, chats, nextId, now, inflight,
                   outbox, slugIO, normIO>>

\* BlogPost.findOne({ slug, published: true })
FindPublishedBySlug(slug) == {d \in blogs : d.slug = slug /\ d.published}

\* GET /api/blog/:slug
BlogGet(slug) ==
    /\ resp' = IF FindPublishedBySlug(slug) = {}
               THEN Response("blog.get", NoId, slug, NoFile, 404, <<>>)
               ELSE Response("blog.get", NoId, slug, NoFile, 200,
                             <<CHOOSE d \in FindPublishedBySlug(slug) : TRUE>>)
    /\ UNCHANGED <<contacts, blogs, jobs, products, chats, nextId, now, inflight,
                   outbox, slugIO, normIO>>

\* POST /api/blog without a file: the handler runs to its save
BlogCreate(title, published) ==
    /\ BlogInsert(title, IsTrue(published), "", NoFile)
    /\ UNCHANGED <<contacts, jobs, products, chats, now, inflight, outbox,
                   slugIO, normIO>>

\* POST /api/blog with a file: the handler is suspended at the upload
BlogCreateUpload ==
    /\ FreeSlots # {}
    /\ inflight' = [inflight EXCEPT ![LeastFree] = Request("blog.create", "upload", 0, 0)]
    /\ UNCHANGED <<contacts, blogs, jobs, products, chats, nextId, now, outbox,
                   resp, slugIO, normIO>>

\* POST /api/blog resumed by the upload callback
BlogCreateUploaded(s, result, title, published) ==
    /\ inflight[s].op = "blog.create"
    /\ IF result = UploadError
       THEN /\ resp' = Fail("blog.create", NoId, title)
            /\ UNCHANGED <<blogs, nextId>>
       ELSE BlogInsert(title, IsTrue(published), result, result)
    /\ inflight' = [inflight EXCEPT ![s] = Idle]
    /\ UNCHANGED <<contacts, jobs, products, chats, now, outbox, slugIO, normIO>>

\* PUT /api/blog/:id without a file
BlogUpdate(id, title, published) ==
    /\ BlogPatch(id, title, IsTrue(published), "", NoFile)
    /\ UNCHANGED <<contacts, jobs, products, chats, nextId, now, inflight, outbox,
                   slugIO, normIO>>

\* PUT /api/blog/:id with a file: the handler is suspended at the upload
BlogUpdateUpload ==
    /\ FreeSlots # {}
    /\ inflight' = [inflight EXCEPT ![LeastFree] = Request("blog.update", "upload", 0, 0)]
    /\ UNCHANGED <<contacts, blogs, jobs, products, chats, nextId, now, outbox,
                   resp, slugIO, normIO>>

\* PUT /api/blog/:id resumed by the upload callback
BlogUpdateUploaded(s, result, id, title, published) ==
    /\ inflight[s].op = "blog.update"
    /\ IF result = UploadError
       THEN /\ resp' = Fail("blog.update", id, <<>>)
            /\ UNCHANGED blogs
       ELSE BlogPatch(id, title, IsTrue(published), result, result)
    /\ inflight' = [inflight EXCEPT ![s] = Idle]
    /\ UNCHANGED <<contacts, jobs, products, chats, nextId, now, outbox, slugIO, normIO>>

\* DELETE /api/blog/:id: findByIdAndDelete throws a CastError for an id
\* that is no ObjectId and resolves (to null) for one that matches nothing
BlogDelete(id) ==
    /\ IF IsObjectId(id)
       THEN /\ blogs' = blogs \ ById(blogs, id)
            /\ resp' = Response("blog.delete", id, <<>>, NoFile, 200, <<>>)
       ELSE /\ resp' = Fail("blog.delete", id, <<>>)
            /\ UNCHANGED blogs
    /\ UNCHANGED <<contacts, jobs, products, chats, nextId, now, inflight, outbox,
                   slugIO, normIO>>

BlogReads ==
    \/ BlogList
    \/ BlogListAdmin
    \/ \E slug \in SlugParams : BlogGet(slug)

UploadResults == Urls \cup {UploadError}

BlogWrites ==
    \/ \E t \in TitleFields, p \in RawFlags : BlogCreate(t, p)
    \/ BlogCreateUpload
    \/ \E s \in Slots, r \in UploadResults, t \in TitleFields, p \in RawFlags :
          BlogCreateUploaded(s, r, t, p)
    \/ \E id \in IdParams, t \in TitleFields, p \in RawFlags : BlogUpdate(id, t, p)
    \/ BlogUpdateUpload
    \/ \E s \in Slots, r \in UploadResults, id \in IdParams, t \in TitleFields,
          p \in RawFlags : BlogUpdateUploaded(s, r, id, t, p)
    \/ \E id \in IdParams : BlogDelete(id)

-----------------------------------------------------------------------------
(* Products *)

\* req.body.name (standing for the required name, category and description)
NameFields == {"Widget", Undef}

ProductDoc(id, name, image, date) ==
    [_id |-> id, name |-> name, image |-> image, date |-> date]

\* POST /api/products after the upload: new Product, save (the required
\* fields are validated), respond
ProductInsert(name, imageUrl, upload) ==
    IF name = Undef
    THEN /\ resp' = Fail("products.create", NoId, <<>>)
         /\ UNCHANGED <<products, nextId>>
    ELSE LET doc == ProductDoc(nextId, name, imageUrl, now)
         IN  /\ nextId <= MaxDocs
             /\ products' = products \cup {doc}
             /\ nextId' = nextId + 1
             /\ resp' = [Response("products.create", NoId, <<>>, upload, 201, <<doc>>)
                            EXCEPT !.made = doc._id]

\* PUT /api/products/:id after the upload: updateData, findByIdAndUpdate
\* with { new: true }, respond
ProductPatch(id, name, imageUrl, upload) ==
    IF ~IsObjectId(id)
    THEN /\ resp' = Fail("products.update", id, <<>>)
         /\ UNCHANGED products
    ELSE IF ById(products, id) = {}
    THEN /\ resp' = Response("products.update", id, <<>>, upload, 200, <<>>)
         /\ UNCHANGED products
    ELSE LET old == CHOOSE d \in ById(products, id) : TRUE
             new == [old EXCEPT !.name = IF name = Undef THEN @ ELSE name,
                                !.image = PatchImage(@, imageUrl)]
         IN  /\ products' = (products \ {old}) \cup {new}
             /\ resp' = Response("products.update", id, <<>>, upload, 200, <<new>>)

\* GET /api/products
ProductList ==
    /\ \E body \in SortedByDate(products, -1) :
          resp' = Response("products.list", NoId, <<>>, NoFile, 200, body)
    /\ UNCHANGED <<contacts, blogs, jobs, products, chats, nextId, now, inflight,
                   outbox, slugIO, normIO>>

\* POST /api/products without a file
ProductCreate(name) ==
    /\ ProductInsert(name, "", NoFile)
    /\ UNCHANGED <<contacts, blogs, jobs, chats, now, inflight, outbox, slugIO, normIO>>

\* POST /api/products with a file: the handler is suspended at the upload
ProductCreateUpload ==
    /\ FreeSlots # {}
    /\ inflight' = [inflight EXCEPT ![LeastFree] = Request("products.create", "upload", 0, 0)]
    /\ UNCHANGED <<contacts, blogs, jobs, products, chats, nextId, now, outbox,
                   resp, slugIO, normIO>>

\* POST /api/products resumed by the upload callback
ProductCreateUploaded(s, result, name) ==
    /\ inflight[s].op = "products.create"
    /\ IF result = UploadError
       THEN /\ resp' = Fail("products.create", NoId, <<>>)
            /\ UNCHANGED <<products, nextId>>
       ELSE ProductInsert(name, result, result)
    /\ inflight' = [inflight EXCEPT ![s] = Idle]
    /\ UNCHANGED <<contacts, blogs, jobs, chats, now, outbox, slugIO, normIO>>

\* PUT /api/products/:id without a file
ProductUpdate(id, name) ==
    /\ ProductPatch(id, name, "", NoFile)
    /\ UNCHANGED <<contacts, blogs, jobs, chats, nextId, now, inflight, outbox,
                   slugIO, normIO>>

\* PUT /api/products/:id with a file: the handler is suspended at the upload
ProductUpdateUpload ==
    /\ FreeSlots # {}
    /\ inflight' = [inflight EXCEPT ![LeastFree] = Request("products.update", "upload", 0, 0)]
    /\ UNCHANGED <<contacts, blogs, jobs, products, chats, nextId, now, outbox,
                   resp, slugIO, normIO>>

\* PUT /api/products/:id resumed by the upload callback
ProductUpdateUploaded(s, result, id, name) ==
    /\ inflight[s].op = "products.update"
    /\ IF result = UploadError
       THEN /\ resp' = Fail("products.update", id, <<>>)
            /\ UNCHANGED products
       ELSE ProductPatch(id, name, result, result)
    /\ inflight' = [inflight EXCEPT ![s] = Idle]
    /\ UNCHANGED <<contacts, blogs, jobs, chats, nextId, now, outbox, slugIO, normIO>>

\* DELETE /api/products/:id
ProductDelete(id) ==
    /\ IF IsObjectId(id)
       THEN /\ products' = products \ ById(products, id)
            /\ resp' = Response("products.delete", id, <<>>, NoFile, 200, <<>>)
       ELSE /\ resp' = Fail("products.delete", id, <<>>)
            /\ UNCHANGED products
    /\ UNCHANGED <<contacts, blogs, jobs, chats, nextId, now, inflight, outbox,
                   slugIO, normIO>>

ProductWrites ==
    \/ \E n \in NameFields : ProductCreate(n)
    \/ ProductCreateUpload
    \/ \E s \in Slots, r \in UploadResults, n \in NameFields : ProductCreateUploaded(s, r, n)
    \/ \E id \in IdParams, n \in NameFields : ProductUpdate(id, n)
    \/ ProductUpdateUpload
    \/ \E s \in Slots, r \in UploadResults, id \in IdParams, n \in NameFields :
          ProductUpdateUploaded(s, r, id, n)
    \/ \E id \in IdParams : ProductDelete(id)

-----------------------------------------------------------------------------
(* Job postings *)

\* enum: ['Full-time', 'Part-time', 'Contract', 'Internship']
JobTypes == {"Full-time", "Part-time", "Contract", "Internship"}
\* req.body.type
TypeFields == {"Contract", "Freelance", Undef}
\* req.body.title (standing for the required title, company, description
\* and applyUrl)
JobTitleFields == {"Engineer", Undef}
\* req.body.requirements: absent, "a, b", ["a", "b"]
RequirementFields ==
    {Absent, StringVal(<<"a", ",", " ", "b">>), ArrayVal(<< <<"a">>, <<"b">> >>)}

JobDoc(id, title, type, requirements, isActive, date) ==
    [_id |-> id, title |-> title, type |-> type, requirements |-> requirements,
     isActive |-> isActive, date |-> date]

\* the validation save() runs on type
TypeValid(type) == type \in JobTypes

\* mutant: the query without its filter
AllJobs(S) == S

\* JobPosting.find({ isActive: true })
ActiveJobs(S) == {d \in S : d.isActive}

\* GET /api/jobs
JobList ==
    /\ \E body \in SortedByDate(ActiveJobs(jobs), -1) :
          resp' = Response("jobs.list", NoId, <<>>, NoFile, 200, body)
    /\ UNCHANGED <<contacts, blogs, jobs, products, chats, nextId, now, inflight,
                   outbox, slugIO, normIO>>

\* GET /api/admin/jobs
JobListAdmin ==
    /\ \E body \in SortedByDate(jobs, -1) :
          resp' = Response("jobs.listAdmin", NoId, <<>>, NoFile, 200, body)
    /\ UNCHANGED <<contacts, blogs, jobs, products, chats, nextId, now, inflight,
                   outbox, slugIO, normIO>>

\* GET /api/jobs/:id: findById throws a CastError for an id that is no
\* ObjectId, which the catch block answers with 500
JobGet(id) ==
    /\ resp' = IF ~IsObjectId(id) THEN Fail("jobs.get", id, <<>>)
               ELSE IF ById(jobs, id) = {}
               THEN Response("jobs.get", id, <<>>, NoFile, 404, <<>>)
               ELSE Response("jobs.get", id, <<>>, NoFile, 200,
                             <<CHOOSE d \in ById(jobs, id) : TRUE>>)
    /\ UNCHANGED <<contacts, blogs, jobs, products, chats, nextId, now, inflight,
                   outbox, slugIO, normIO>>

\* POST /api/jobs: new JobPosting (type defaults to 'Full-time', isActive to
\* true), save (required fields and the enum are validated), respond
JobCreate(title, type, requirements) ==
    /\ LET t == IF type = Undef THEN "Full-time" ELSE type
           doc == JobDoc(nextId, title, t, NormalizeList(requirements), TRUE, now)
       IN  IF title = Undef \/ ~TypeValid(t)
           THEN /\ resp' = Fail("jobs.create", NoId, <<>>)
                /\ UNCHANGED <<jobs, nextId>>
           ELSE /\ nextId <= MaxDocs
                /\ jobs' = jobs \cup {doc}
                /\ nextId' = nextId + 1
                /\ resp' = [Response("jobs.create", NoId, <<>>, NoFile, 201, <<doc>>)
                               EXCEPT !.made = doc._id]
    /\ UNCHANGED <<contacts, blogs, products, chats, now, inflight, outbox,
                   slugIO, normIO>>

\* requirements ? requirements.split(',').map(trim) : []   (PUT /api/jobs/:id)
SplitOrEmpty(v) == IF v.kind = "string" /\ v.text # <<>> THEN SplitTrim(v.text) ELSE <<>>

\* PUT /api/jobs/:id: an array has no split (a TypeError, answered with 500);
\* findByIdAndUpdate with { new: true } runs no validators and leaves
\* undefined fields out of the update
JobUpdate(id, title, type, requirements, isActive) ==
    /\ IF requirements.kind = "array" \/ ~IsObjectId(id)
       THEN /\ resp' = Fail("jobs.update", id, <<>>)
            /\ UNCHANGED jobs
       ELSE IF ById(jobs, id) = {}
       THEN /\ resp' = Response("jobs.update", id, <<>>, NoFile, 200, <<>>)
            /\ UNCHANGED jobs
       ELSE LET old == CHOOSE d \in ById(jobs, id) : TRUE
                new == [old EXCEPT !.title = IF title = Undef THEN @ ELSE title,
                                   !.type = IF type = Undef THEN @ ELSE type,
                                   !.requirements = SplitOrEmpty(requirements),
                                   !.isActive = IsTrue(isActive)]
            IN  /\ jobs' = (jobs \ {old}) \cup {new}
                /\ resp' = Response("jobs.update", id, <<>>, NoFile, 200, <<new>>)
    /\ UNCHANGED <<contacts, blogs, products, chats, nextId, now, inflight, outbox,
                   slugIO, normIO>>

\* DELETE /api/jobs/:id
JobDelete(id) ==
    /\ IF IsObjectId(id)
       THEN /\ jobs' = jobs \ ById(jobs, id)
            /\ resp' = Response("jobs.delete", id, <<>>, NoFile, 200, <<>>)
       ELSE /\ resp' = Fail("jobs.delete", id, <<>>)
            /\ UNCHANGED jobs
    /\ UNCHANGED <<contacts, blogs, products, chats, nextId, now, inflight, outbox,
                   slugIO, normIO>>

JobActions ==
    \/ JobList
    \/ JobListAdmin
    \/ \E id \in IdParams : JobGet(id)
    \/ \E t \in JobTitleFields, ty \in TypeFields, r \in RequirementFields :
          JobCreate(t, ty, r)
    \/ \E id \in IdParams, t \in JobTitleFields, ty \in TypeFields,
          r \in RequirementFields, a \in RawFlags : JobUpdate(id, t, ty, r, a)
    \/ \E id \in IdParams : JobDelete(id)

-----------------------------------------------------------------------------
(* Contacts *)

ContactDoc(id, name, date) == [_id |-> id, name |-> name, date |-> date]

\* POST /api/contact up to its first await: new Contact (its date is set
\* here), save() called
ContactCreate ==
    /\ FreeSlots # {}
    /\ inflight' = [inflight EXCEPT ![LeastFree] = Request("contact.create", "save", now, 0)]
    /\ UNCHANGED <<contacts, blogs, jobs, products, chats, nextId, now, outbox,
                   resp, slugIO, normIO>>

\* mutant: sendMail is called whether or not the save succeeded
AfterSaveAlwaysMail(ok) == "mail"

\* where the handler goes when save() settles: on to sendMail, or to the
\* catch block
AfterSave(ok) == IF ok THEN "mail" ELSE "catch"

\* POST /api/contact resumed by save(): the document is stored and
\* sendMail called, or the store rejected it and the catch block answers
ContactSaved(s, ok, name) ==
    /\ inflight[s].op = "contact.create" /\ inflight[s].pc = "save"
    /\ IF ok
       THEN /\ nextId <= MaxDocs
            /\ contacts' = contacts \cup {ContactDoc(nextId, name, inflight[s].date)}
            /\ nextId' = nextId + 1
       ELSE UNCHANGED <<contacts, nextId>>
    /\ IF AfterSave(ok) = "mail"
       THEN /\ inflight' = [inflight EXCEPT ![s].pc = "mail",
                                            ![s].made = IF ok THEN nextId ELSE 0]
            /\ UNCHANGED resp
       ELSE /\ inflight' = [inflight EXCEPT ![s] = Idle]
            /\ resp' = Fail("contact.create", NoId, <<>>)
    /\ UNCHANGED <<blogs, jobs, products, chats, now, outbox, slugIO, normIO>>

\* mutant: the mail's failure is swallowed
MailStatusIgnored(ok) == 200

\* the status the handler answers with when sendMail settles
MailStatus(ok) == IF ok THEN 200 ELSE 500

\* POST /api/contact resumed by sendMail(): 200, or the catch block's 500;
\* nothing is done to the stored contact either way
ContactMailed(s, ok) ==
    /\ inflight[s].op = "contact.create" /\ inflight[s].pc = "mail"
    /\ outbox' = IF ok THEN outbox + 1 ELSE outbox
    /\ resp' = [Response("contact.create", NoId, <<>>, NoFile, MailStatus(ok), <<>>)
                   EXCEPT !.made = inflight[s].made, !.mailed = ok]
    /\ inflight' = [inflight EXCEPT ![s] = Idle]
    /\ UNCHANGED <<contacts, blogs, jobs, products, chats, nextId, now, slugIO, normIO>>

\* GET /api/contact
ContactList ==
    /\ \E body \in SortedByDate(contacts, -1) :
          resp' = Response("contact.list", NoId, <<>>, NoFile, 200, body)
    /\ UNCHANGED <<contacts, blogs, jobs, products, chats, nextId, now, inflight,
                   outbox, slugIO, normIO>>

\* DELETE /api/contact/:id
ContactDelete(id) ==
    /\ IF IsObjectId(id)
       THEN /\ contacts' = contacts \ ById(contacts, id)
            /\ resp' = Response("contact.delete", id, <<>>, NoFile, 200, <<>>)
       ELSE /\ resp' = Fail("contact.delete", id, <<>>)
            /\ UNCHANGED contacts
    /\ UNCHANGED <<blogs, jobs, products, chats, nextId, now, inflight, outbox,
                   slugIO, normIO>>

\* req.body.name (standing for name, email and message)
ContactNames == {"Ann"}

ContactActions ==
    \/ ContactCreate
    \/ \E s \in Slots, ok \in BOOLEAN, n \in ContactNames : ContactSaved(s, ok, n)
    \/ \E s \in Slots, ok \in BOOLEAN : ContactMailed(s, ok)
    \/ ContactList
    \/ \E id \in IdParams : ContactDelete(id)

-----------------------------------------------------------------------------
(* Chat messages *)

\* enum: ['user', 'admin', 'bot']
Senders == {"user", "admin", "bot"}
\* req.body.from
FromFields == {"user", "bot", "guest", Undef}

ChatDoc(id, from, date) == [_id |-> id, from |-> from, date |-> date]

\* GET /api/chat
ChatList ==
    /\ \E body \in SortedByDate(chats, 1) :
          resp' = Response("chat.list", NoId, <<>>, NoFile, 200, body)
    /\ UNCHANGED <<contacts, blogs, jobs, products, chats, nextId, now, inflight,
                   outbox, slugIO, normIO>>

\* POST /api/chat: new ChatMessage, save (from is required and of the enum)
ChatCreate(from) ==
    /\ IF from \notin Senders
       THEN /\ resp' = Fail("chat.create", NoId, <<>>)
            /\ UNCHANGED <<chats, nextId>>
       ELSE LET doc == ChatDoc(nextId, from, now)
            IN  /\ nextId <= MaxDocs
                /\ chats' = chats \cup {doc}
                /\ nextId' = nextId + 1
                /\ resp' = [Response("chat.create", NoId, <<>>, NoFile, 201, <<doc>>)
                               EXCEPT !.made = doc._id]
    /\ UNCHANGED <<contacts, blogs, jobs, products, now, inflight, outbox,
                   slugIO, normIO>>

\* DELETE /api/chat/:id
ChatDelete(id) ==
    /\ IF IsObjectId(id)
       THEN /\ chats' = chats \ ById(chats, id)
            /\ resp' = Response("chat.delete", id, <<>>, NoFile, 200, <<>>)
       ELSE /\ resp' = Fail("chat.delete", id, <<>>)
            /\ UNCHANGED chats
    /\ UNCHANGED <<contacts, blogs, jobs, products, nextId, now, inflight, outbox,
                   slugIO, normIO>>

ChatActions ==
    \/ ChatList
    \/ \E f \in FromFields : ChatCreate(f)
    \/ \E id \in IdParams : ChatDelete(id)

-----------------------------------------------------------------------------
(* SpecSlug: the slug expression of POST /api/blog applied to every title   *)
(* over TitleAlphabet up to MaxTitleLen, and to the documented example      *)

TitleAlphabet == {"a", "B", "7", " ", "-", ",", "É"}

\* "Hello, World! 2024"
HelloWorldTitle == <<"H","e","l","l","o",","," ","W","o","r","l","d","!"," ","2","0","2","4">>
\* "hello-world-2024"
HelloWorldSlug == <<"h","e","l","l","o","-","w","o","r","l","d","-","2","0","2","4">>

TitleInputs == SeqsUpTo(TitleAlphabet, MaxTitleLen) \cup {HelloWorldTitle}

InitSlug ==
    /\ StoreIdle
    /\ normIO = NormIdle
    /\ slugIO \in {[title |-> t, slug |-> <<>>, done |-> FALSE] : t \in TitleInputs}

ComputeSlug ==
    /\ ~slugIO.done
    /\ slugIO' = [slugIO EXCEPT !.slug = Slugify(slugIO.title), !.done = TRUE]
    /\ UNCHANGED <<storeVars, normIO>>

NextSlug == ComputeSlug

SpecSlug == InitSlug /\ [][NextSlug]_vars

-----------------------------------------------------------------------------
(* SpecNorm: the requirements / benefits expression of POST /api/jobs       *)
(* applied to lists, comma-separated strings and absent values              *)

CsvAlphabet == {"a", "b", " ", ","}
\* longest array explored
MaxListLen == 2
ListElements == {<<>>, <<"a">>, <<" ", "b">>, <<"a", ",", "b">>}

\* "a, b ,c"
AbcCsv == <<"a", ",", " ", "b", " ", ",", "c">>
AbcList == << <<"a">>, <<"b">>, <<"c">> >>

NormInputs ==
    {Absent}
    \cup {StringVal(s) : s \in SeqsUpTo(CsvAlphabet, MaxCsvLen) \cup {AbcCsv}}
    \cup {ArrayVal(a) : a \in SeqsUpTo(ListElements, MaxListLen)}

InitNorm ==
    /\ StoreIdle
    /\ slugIO = SlugIdle
    /\ normIO \in {[value |-> v, stored |-> <<>>, done |-> FALSE] : v \in NormInputs}

ComputeNorm ==
    /\ ~normIO.done
    /\ normIO' = [normIO EXCEPT !.stored = NormalizeList(normIO.value), !.done = TRUE]
    /\ UNCHANGED <<storeVars, slugIO>>

NextNorm == ComputeNorm

SpecNorm == InitNorm /\ [][NextNorm]_vars

-----------------------------------------------------------------------------
(* C7 *)

IsAsciiAlnum(c) == c \in Range(Lower) \cup Range(Upper) \cup Range(Digits)

AlnumPos(t) == {i \in 1..Len(t) : IsAsciiAlnum(t[i])}

\* the j-th alphanumeric position of t
NthAlnum(t, j) == CHOOSE p \in AlnumPos(t) : Cardinality({q \in AlnumPos(t) : q <= p}) = j

\* the j-th alphanumeric character of t is separated from the one before it
GapBefore(t, j) == j > 1 /\ NthAlnum(t, j) > NthAlnum(t, j - 1) + 1

\* where the j-th alphanumeric character of t belongs in the slug
SlugPos(t, j) == j + Cardinality({k \in 2..j : GapBefore(t, k)})

\* s is the lowered alphanumeric characters of t in order, with exactly one
\* '-' wherever a run of other characters separated two of them
RunsCollapsed(t, s) ==
    LET n == Cardinality(AlnumPos(t))
    IN  /\ Len(s) = IF n = 0 THEN 0 ELSE SlugPos(t, n)
        /\ \A j \in 1..n :
              /\ s[SlugPos(t, j)] = ToLowerChar(t[NthAlnum(t, j)])
              /\ GapBefore(t, j) => s[SlugPos(t, j) - 1] = "-"

\* C7: for every title the slug computed by blog.create is lowercase, made
\* of [a-z0-9-] only, has no leading or trailing '-', and has exactly one
\* '-' for every run of non-alphanumeric characters between alphanumeric
\* ones; 'Hello, World! 2024' gives 'hello-world-2024'.
C7_SlugDerivation ==
    slugIO.done =>
        LET t == slugIO.title
            s == slugIO.slug
        IN  /\ \A i \in 1..Len(s) : s[i] \in Range(Lower) \cup Range(Digits) \cup {"-"}
            /\ \A i \in 1..Len(s) : s[i] \notin Range(Upper)
            /\ s # <<>> => s[1] # "-" /\ s[Len(s)] # "-"
            /\ RunsCollapsed(t, s)
            /\ t = HelloWorldTitle => s = HelloWorldSlug

C7_Witness ==
    /\ slugIO.done
    /\ slugIO.title = HelloWorldTitle
    /\ slugIO.slug = HelloWorldSlug

\* a title whose runs of separators sit at both ends and in the middle
C7_WitnessRuns ==
    /\ slugIO.done
    /\ slugIO.title = <<",", "a", " ", "-">>
    /\ slugIO.slug = <<"a">>

-----------------------------------------------------------------------------
(* C10 *)

CommaPos(s) == {i \in 1..Len(s) : s[i] = ","}

\* the position of the i-th comma of s; 0 before the first piece and
\* Len(s) + 1 after the last
Fence(s, i) ==
    IF i = 0 THEN 0
    ELSE IF i > Cardinality(CommaPos(s)) THEN Len(s) + 1
    ELSE CHOOSE p \in CommaPos(s) : Cardinality({q \in CommaPos(s) : q <= p}) = i

\* the i-th comma-separated piece of s without its surrounding white space
TrimmedPiece(s, i) ==
    LET inner == {k \in (Fence(s, i - 1) + 1)..(Fence(s, i) - 1) : s[k] # " "}
    IN  IF inner = {} THEN <<>>
        ELSE LET lo == CHOOSE k \in inner : \A m \in inner : k <= m
                 hi == CHOOSE k \in inner : \A m \in inner : k >= m
             IN  SubSeq(s, lo, hi)

\* C10: jobs.create stores a list as that list, a comma-separated string as
\* its pieces each trimmed ('a, b ,c' as ['a','b','c']), and an absent or
\* empty value as the empty list.
C10_Normalisation ==
    normIO.done =>
        LET v == normIO.value
            l == normIO.stored
        IN  /\ v.kind = "array" => l = v.elems
            /\ v.kind = "string" /\ v.text # <<>> =>
                  /\ Len(l) = Cardinality(CommaPos(v.text)) + 1
                  /\ \A i \in 1..Len(l) : l[i] = TrimmedPiece(v.text, i)
            /\ v.kind = "undefined" \/ (v.kind = "string" /\ v.text = <<>>) => l = <<>>
            /\ v = StringVal(AbcCsv) => l = AbcList

C10_Witness ==
    /\ normIO.done
    /\ normIO.value = StringVal(AbcCsv)
    /\ normIO.stored = AbcList

-----------------------------------------------------------------------------
(* Specifications of the server *)

Init == StoreIdle /\ slugIO = SlugIdle /\ normIO = NormIdle

NextBlog == BlogWrites

SpecBlog == Init /\ [][NextBlog]_vars

NextMedia == BlogWrites \/ ProductWrites

SpecMedia == Init /\ [][NextMedia]_vars

NextJobs == JobActions

NextContact == Tick \/ ContactActions

SpecContact == Init /\ [][NextContact]_vars

\* the single-item lookups, with the writes that decide what they find
NextLookup ==
    \/ \E slug \in SlugParams : BlogGet(slug)
    \/ \E t \in TitleFields, p \in RawFlags : BlogCreate(t, p)
    \/ \E id \in IdParams, t \in TitleFields, p \in RawFlags : BlogUpdate(id, t, p)
    \/ \E id \in IdParams : BlogDelete(id)
    \/ \E id \in IdParams : JobGet(id)
    \/ \E t \in JobTitleFields, ty \in TypeFields, r \in RequirementFields :
          JobCreate(t, ty, r)
    \/ \E id \in IdParams : JobDelete(id)

SpecLookup == Init /\ [][NextLookup]_vars

NextLists == Tick \/ ChatActions \/ ContactActions \/ ProductList \/ ProductWrites

SpecLists == Init /\ [][NextLists]_vars

\* every handler of the server
Next ==
    \/ Tick
    \/ BlogReads \/ BlogWrites
    \/ JobActions
    \/ ProductList \/ ProductWrites
    \/ ContactActions
    \/ ChatActions

Spec == Init /\ [][Next]_vars

SpecJobs == Init /\ [][NextJobs]_vars

-----------------------------------------------------------------------------
(* C1 *)

SlugStored(S, t) == \E d \in S : d.slug = Slugify(t)

\* C1: no two stored blog posts ever have the same slug, whatever the
\* interleaving of blog.create, blog.update and blog.delete; a blog.create
\* whose title normalises to the slug of a stored post answers 500 and
\* stores no post; a post is only ever added by a blog.create answering 201.
C1_SlugUnique ==
    /\ \A d, e \in blogs : d.slug = e.slug => d = e
    /\ [][/\ \A d, e \in blogs' : d.slug = e.slug => d = e
          /\ (/\ resp' # resp
              /\ resp'.op = "blog.create"
              /\ resp'.text \in BlogTitles
              /\ SlugStored(blogs, resp'.text))
             => resp'.status = 500 /\ blogs' = blogs
          /\ \A e \in blogs' : (\A d \in blogs : d._id # e._id)
             => /\ resp'.op = "blog.create" /\ resp'.status = 201
                /\ resp'.body = <<e>>
                /\ ~\E d \in blogs : d.slug = e.slug]_vars

\* a create was rejected for its slug, which a post of another title has,
\* while two posts were stored
C1_Witness ==
    /\ resp.op = "blog.create" /\ resp.status = 500
    /\ resp.text \in BlogTitles
    /\ SlugStored(blogs, resp.text)
    /\ Cardinality(blogs) = 2
    /\ \E d \in blogs : d.title # resp.text /\ d.slug = Slugify(resp.text)

-----------------------------------------------------------------------------
(* C2 *)

\* C2: the public jobs.list never returns a job whose isActive is false;
\* jobs.listAdmin returns every stored job, active or not.
C2_JobVisibility ==
    /\ resp.op = "jobs.list" =>
          \A i \in DOMAIN resp.body : resp.body[i] \in jobs /\ resp.body[i].isActive
    /\ resp.op = "jobs.listAdmin" =>
          /\ Range(resp.body) = jobs
          /\ Len(resp.body) = Cardinality(jobs)

\* the public list answered with the active job while an inactive one is stored
C2_Witness ==
    /\ resp.op = "jobs.list"
    /\ Len(resp.body) = 1
    /\ \E d \in jobs : ~d.isActive

\* the admin list answered with an active and an inactive job
C2_WitnessAdmin ==
    /\ resp.op = "jobs.listAdmin"
    /\ \E i, j \in DOMAIN resp.body : resp.body[i].isActive /\ ~resp.body[j].isActive

-----------------------------------------------------------------------------
(* C3 *)

\* the step answers an update of the stored document d of collection S
\* whose upload, if there was one, succeeded
UpdateAnswered(op, d) ==
    /\ resp' # resp
    /\ resp'.op = op
    /\ resp'.id = d._id
    /\ resp'.upload # UploadError
    /\ resp'.status # 500

ImageKeptOrReplaced(d, S) ==
    \E e \in S :
       /\ e._id = d._id
       /\ resp'.status = 200
       /\ resp'.body = <<e>>
       /\ resp'.upload = NoFile => e.image = d.image
       /\ resp'.upload \in Urls => e.image = resp'.upload

\* C3: a blog.update or products.update of an existing record leaves its
\* image URL as it was when the request has no file, and makes it the URL the
\* uploader returned when the request has a file that was uploaded.
C3_ImagePreserved ==
    [][/\ \A d \in blogs : UpdateAnswered("blog.update", d) => ImageKeptOrReplaced(d, blogs')
       /\ \A d \in products :
             UpdateAnswered("products.update", d) => ImageKeptOrReplaced(d, products')]_vars

\* an update without a file answered with the post's uploaded image still there
C3_Witness ==
    /\ resp.op = "blog.update" /\ resp.status = 200 /\ resp.upload = NoFile
    /\ Len(resp.body) = 1
    /\ resp.body[1].image \in Urls
    /\ resp.body[1] \in blogs

\* an update with a file answered with the product's image replaced
C3_WitnessReplaced ==
    /\ resp.op = "products.update" /\ resp.status = 200 /\ resp.upload \in Urls
    /\ Len(resp.body) = 1
    /\ resp.body[1].image = resp.upload
    /\ resp.body[1] \in products

-----------------------------------------------------------------------------
(* C4 *)

\* C4: contact.create calls sendMail only after its save has succeeded, and
\* answers 200 only after sendMail has succeeded; when the save or the mail
\* fails it answers 500.
C4_ContactOrdering ==
    /\ \A s \in Slots : inflight[s].pc = "mail" => inflight[s].made # 0
    /\ outbox <= nextId - 1
    /\ resp.op = "contact.create" =>
          /\ resp.status \in {200, 500}
          /\ resp.mailed => resp.made # 0
          /\ resp.status = 200 => resp.mailed /\ resp.made # 0 /\ outbox >= 1
          /\ (~resp.mailed \/ resp.made = 0) => resp.status = 500

\* a contact was saved, mailed and answered with 200
C4_Witness ==
    /\ resp.op = "contact.create" /\ resp.status = 200
    /\ resp.mailed
    /\ \E d \in contacts : d._id = resp.made
    /\ outbox = 1

-----------------------------------------------------------------------------
(* C5 *)

StoredIds == {d._id : d \in contacts} \cup {d._id : d \in blogs} \cup {d._id : d \in jobs}
                \cup {d._id : d \in products} \cup {d._id : d \in chats}

\* C5: a request answered with 500 leaves nothing in the record store: the
\* document it persisted, if any, is not stored.
C5_NoPartialSuccess == resp.status = 500 => resp.made \notin StoredIds

-----------------------------------------------------------------------------
(* C6 *)

\* C6: blog.get answers 404 when no published post has the slug and 200
\* with the post when one has; jobs.get answers 404 when no stored job has
\* the identifier and 200 with the job when one has.
C6_NotFoundMapping ==
    /\ resp.op = "blog.get" =>
          IF \E d \in blogs : d.slug = resp.text /\ d.published
          THEN resp.status = 200 /\ Len(resp.body) = 1 /\ resp.body[1] \in blogs
                  /\ resp.body[1].slug = resp.text
          ELSE resp.status = 404
    /\ resp.op = "jobs.get" =>
          IF \E d \in jobs : d._id = resp.id
          THEN resp.status = 200 /\ Len(resp.body) = 1 /\ resp.body[1] \in jobs
                  /\ resp.body[1]._id = resp.id
          ELSE resp.status = 404

\* the part of C6 that holds: every blog.get, and jobs.get for an
\* identifier that is an ObjectId
C6_WellFormedIds ==
    /\ resp.op = "blog.get" =>
          IF \E d \in blogs : d.slug = resp.text /\ d.published
          THEN resp.status = 200 /\ Len(resp.body) = 1 /\ resp.body[1] \in blogs
                  /\ resp.body[1].slug = resp.text
          ELSE resp.status = 404
    /\ resp.op = "jobs.get" /\ IsObjectId(resp.id) =>
          IF \E d \in jobs : d._id = resp.id
          THEN resp.status = 200 /\ Len(resp.body) = 1 /\ resp.body[1] \in jobs
                  /\ resp.body[1]._id = resp.id
          ELSE resp.status = 404

\* blog.get answered 404 for the slug of a stored, unpublished post
C6_WitnessUnpublished ==
    /\ resp.op = "blog.get" /\ resp.status = 404
    /\ \E d \in blogs : d.slug = resp.text /\ ~d.published

-----------------------------------------------------------------------------
(* C8 *)

\* C8: every stored job posting has a type of the enumeration.
C8_JobTypeEnum == \A d \in jobs : d.type \in JobTypes

\* the part of C8 that holds: jobs.create never stores a type outside the
\* enumeration
C8_CreateValidates ==
    resp.op = "jobs.create" /\ resp.status = 201 => resp.body[1].type \in JobTypes

-----------------------------------------------------------------------------
(* C9 *)

Ascending(body) == \A i, j \in DOMAIN body : i < j => body[i].date <= body[j].date
Descending(body) == \A i, j \in DOMAIN body : i < j => body[i].date >= body[j].date
AllOf(body, S) == Range(body) = S /\ Len(body) = Cardinality(S)

\* the step answers the request op
Answered(op) == resp' # resp /\ resp'.op = op

\* C9: chat.list returns all chat messages oldest first; contact.list and
\* products.list return all their records newest first.
C9_ListOrdering ==
    [][/\ Answered("chat.list") => AllOf(resp'.body, chats) /\ Ascending(resp'.body)
       /\ Answered("contact.list") =>
             AllOf(resp'.body, contacts) /\ Descending(resp'.body)
       /\ Answered("products.list") =>
             AllOf(resp'.body, products) /\ Descending(resp'.body)]_vars

\* chat.list answered with two messages of different dates
C9_Witness ==
    /\ resp.op = "chat.list"
    /\ Len(resp.body) = 2
    /\ resp.body[1].date < resp.body[2].date

\* contact.list answered with two contacts of different dates
C9_WitnessContacts ==
    /\ resp.op = "contact.list"
    /\ Len(resp.body) = 2
    /\ resp.body[1].date > resp.body[2].date

\* products.list answered with two products of different dates
C9_WitnessProducts ==
    /\ resp.op = "products.list"
    /\ Len(resp.body) = 2
    /\ resp.body[1].date > resp.body[2].date

------------------------------------------------------------------------------
(* C11 *)

\* the updates of the visibility flags, with the creates and deletes that
\* decide what they find and the lists that show the result; the fields
\* other than the flag are left out of the update requests
NextFlags ==
    \/ JobList
    \/ JobListAdmin
    \/ JobCreate("Engineer", Undef, Absent)
    \/ \E id \in IdParams, a \in RawFlags : JobUpdate(id, Undef, Undef, Absent, a)
    \/ \E id \in IdParams : JobDelete(id)
    \/ BlogList
    \/ BlogListAdmin
    \/ \E t \in BlogTitles, p \in RawFlags : BlogCreate(t, p)
    \/ \E id \in IdParams, p \in RawFlags : BlogUpdate(id, UndefText, p)
    \/ BlogUpdateUpload
    \/ \E s \in Slots, result \in UploadResults, id \in IdParams, p \in RawFlags :
          BlogUpdateUploaded(s, result, id, UndefText, p)

SpecFlags == Init /\ [][NextFlags]_vars

\* the request's flag is the boolean true or the string 'true'
SentTrue(raw) == raw = "true" \/ raw = "'true'"

\* the record of S with the identifier id is listed in every body of Bodies
ListedIn(id, Bodies) == \A body \in Bodies : \E i \in DOMAIN body : body[i]._id = id
\* ... is listed in none
ListedInNone(id, Bodies) == \A body \in Bodies : \A i \in DOMAIN body : body[i]._id # id

\* the step answered an update with the updated record
Updated == resp'.status = 200 /\ resp'.body # <<>>

\* C11: a jobs.update that stores a job stores isActive = TRUE exactly when
\* the request's isActive is the boolean true or the string 'true', and
\* FALSE in every other case, the absent field included; blog.update does
\* the same with published. After an update that omits the flag the job is
\* in no answer of the public jobs.list and in every answer of
\* jobs.listAdmin.
C11_FlagReset ==
    [][/\ resp'.op = "jobs.update" /\ Updated =>
             \A t \in JobTitleFields, ty \in TypeFields, r \in RequirementFields,
                a \in RawFlags :
                JobUpdate(resp'.id, t, ty, r, a) =>
                   /\ \E d \in jobs' : d._id = resp'.id
                   /\ \A d \in jobs' : d._id = resp'.id => (d.isActive <=> SentTrue(a))
                   /\ resp'.body[1].isActive <=> SentTrue(a)
                   /\ a = Undef =>
                         /\ ListedInNone(resp'.id, SortedByDate(ActiveJobs(jobs'), -1))
                         /\ ListedIn(resp'.id, SortedByDate(jobs', -1))
       /\ resp'.op = "blog.update" /\ Updated =>
             \A t \in TitleFields, p \in RawFlags :
                (\/ BlogUpdate(resp'.id, t, p)
                 \/ \E s \in Slots, result \in UploadResults :
                       BlogUpdateUploaded(s, result, resp'.id, t, p)) =>
                   /\ \E d \in blogs' : d._id = resp'.id
                   /\ \A d \in blogs' : d._id = resp'.id => (d.published <=> SentTrue(p))
                   /\ p = Undef =>
                         /\ ListedInNone(resp'.id,
                                         SortedByDate({d \in blogs' : d.published}, -1))
                         /\ ListedIn(resp'.id, SortedByDate(blogs', -1))
      ]_vars

\* a jobs.update answered with the job it left inactive: the public list
\* is empty and the admin list has the job
C11_Witness ==
    /\ resp.op = "jobs.update" /\ resp.status = 200 /\ Len(resp.body) = 1
    /\ ~resp.body[1].isActive
    /\ resp.body[1] \in jobs
    /\ ActiveJobs(jobs) = {}

\* a blog.update answered with the post it left unpublished
C11_WitnessBlog ==
    /\ resp.op = "blog.update" /\ resp.status = 200 /\ Len(resp.body) = 1
    /\ ~resp.body[1].published
    /\ resp.body[1] \in blogs

=============================================================================
